---- MODULE Spec2Model ----
(***************************************************************************)
(* Model of src/news_summarizer.py: the daily news summarizer.  main       *)
(* validates the environment, NewsSymmarizer.run_daily_summary fetches     *)
(* entries from the feed provider, summarize_with_chatgpt assembles the    *)
(* prompt and calls the text-generation API, send_email submits the mail.  *)
(*                                                                         *)
(* A text is a sequence of characters, each character a one-character      *)
(* string; the no-break space U+00A0 is written "NBSP".                    *)
(***************************************************************************)
EXTENDS Integers, Sequences, FiniteSets, TLC

VARIABLES
    env,      \* the process environment: variable name -> its value, or Unset
    pc,       \* the position of the run (see the actions below)
    self,     \* <<the NewsSymmarizer object's fields>>, or <<>> before __init__
    net,      \* every network request issued so far, in order
    stdout,   \* the lines printed so far that the claims read, in order
    entries,  \* fetch_recent_articles: the entries to format (its local articles)
    articles, \* run_daily_summary: the fetcher's result
    gen,      \* <<the generation API's answer>>, or <<>> before there is one
    summary,  \* run_daily_summary: <<the summarizer's result>>, or <<>>
    mail,     \* every message send_email composed, in order
    smtp,     \* the mail session: [state, sent]
    exc,      \* the exception that ended the process, or "none"
    raw,      \* clean_text harness: the text handed to clean_text
    pass1,    \* clean_text harness: <<clean_text(raw)>>, or <<>>
    pass2,    \* clean_text harness: <<clean_text(clean_text(raw))>>, or <<>>
    cpc       \* clean_text harness: "idle", "input", "once", "twice"

runVars == <<env, pc, self, net, stdout, entries, articles, gen, summary, mail,
             smtp, exc>>

cleanVars == <<raw, pass1, pass2, cpc>>

vars == <<env, pc, self, net, stdout, entries, articles, gen, summary, mail,
          smtp, exc, raw, pass1, pass2, cpc>>

Unset == "UNSET"

(***************************************************************************)
(* Bounds of the model.                                                    *)
(***************************************************************************)
MaxTextLen == 5     \* longest text handed to the clean_text harness

(***************************************************************************)
(* Text helpers.                                                           *)
(***************************************************************************)
Rep(c, n) == [i \in 1..n |-> c]

Min2(a, b) == IF a <= b THEN a ELSE b

\* Concatenation of the pieces ps[lo..hi], by halving (the pieces are what each
\* position of a text contributes to the result of a substitution).
RECURSIVE Flatten(_, _, _)
Flatten(ps, lo, hi) ==
    IF lo > hi THEN <<>>
    ELSE IF lo = hi THEN ps[lo]
    ELSE LET mid == (lo + hi) \div 2
         IN  Flatten(ps, lo, mid) \o Flatten(ps, mid + 1, hi)

(***************************************************************************)
(* re.sub(r'<[^>]+>', '', text): the leftmost non-overlapping matches of   *)
(* '<', one or more characters other than '>', '>' are deleted.  A position*)
(* i lies in a match iff some '<' at p <= i is followed by a character     *)
(* other than '>' and the first '>' after it exists and is at or after i   *)
(* (a '<' inside an earlier match shares that match's closing '>').        *)
(***************************************************************************)
TagOpens(s) ==
    {p \in 1..Len(s) : /\ s[p] = "<"
                       /\ p + 1 <= Len(s)
                       /\ s[p + 1] # ">"
                       /\ \E q \in (p + 2)..Len(s) : s[q] = ">"}

InTag(s, opens, i) ==
    \E p \in opens : /\ p <= i
                     /\ \A j \in (p + 2)..(i - 1) : s[j] # ">"

StripTags(s) ==
    LET opens == TagOpens(s)
    IN  Flatten([i \in 1..Len(s) |-> IF InTag(s, opens, i) THEN <<>> ELSE <<s[i]>>],
                1, Len(s))

(***************************************************************************)
(* html.unescape(text).  A reference is '&' followed by '#' and decimal    *)
(* digits, or by a run of 1..32 name characters, each with an optional     *)
(* ';'.  The hexadecimal form '&#x..' is not modelled: no text of the      *)
(* model holds "&#x".  html5 is html.entities.html5 restricted to the      *)
(* names the model's texts can spell.                                      *)
(***************************************************************************)
NameMax == 32

Digits == {"0", "1", "2", "3", "4", "5", "6", "7", "8", "9"}

NotNameChar == {"\t", "\n", "\f", " ", "<", "&", "#", ";"}

html5 ==
    (<<"l", "t">> :> <<"<">>) @@ (<<"l", "t", ";">> :> <<"<">>) @@
    (<<"g", "t">> :> <<">">>) @@ (<<"g", "t", ";">> :> <<">">>) @@
    (<<"a", "m", "p">> :> <<"&">>) @@ (<<"a", "m", "p", ";">> :> <<"&">>) @@
    (<<"n", "b", "s", "p">> :> <<"NBSP">>) @@
    (<<"n", "b", "s", "p", ";">> :> <<"NBSP">>)

DigitVal(c) ==
    CASE c = "0" -> 0 [] c = "1" -> 1 [] c = "2" -> 2 [] c = "3" -> 3
      [] c = "4" -> 4 [] c = "5" -> 5 [] c = "6" -> 6 [] c = "7" -> 7
      [] c = "8" -> 8 [] c = "9" -> 9

\* int(digits), capped just above the largest code point (0x10FFFF = 1114111)
RECURSIVE IntOf(_, _)
IntOf(ds, acc) ==
    IF ds = <<>> THEN acc
    ELSE IntOf(Tail(ds), Min2(1114112, acc * 10 + DigitVal(Head(ds))))

\* _replace_charref, numeric branch: the characters reference number num stands
\* for.  In the library's order: the table _invalid_charrefs (0, 13, and 128..159
\* read as windows-1252, written "\\w<num>"), the surrogates and the numbers past
\* 0x10FFFF, the set _invalid_codepoints (dropped), then chr(num), written
\* "\\u<num>" for the characters the model has no other name for.
Chr(num) ==
    CASE num = 0 -> <<"\\uFFFD">>
      [] num = 13 -> <<"\r">>
      [] num \in 128..159 -> <<"\\w" \o ToString(num)>>
      [] (num >= 55296 /\ num <= 57343) \/ num > 1114111 -> <<"\\uFFFD">>
      [] num \in (1..8) \cup {11} \cup (14..31) \cup {127} -> <<>>
      [] num \in 64976..65007 \/ (num % 65536) \in {65534, 65535} -> <<>>
      [] num = 9 -> <<"\t">>
      [] num = 10 -> <<"\n">>
      [] num = 12 -> <<"\f">>
      [] num = 32 -> <<" ">>
      [] num = 38 -> <<"&">>
      [] num = 60 -> <<"<">>
      [] num = 62 -> <<">">>
      [] num = 97 -> <<"a">>
      [] num = 99 -> <<"c">>
      [] num = 160 -> <<"NBSP">>
      [] OTHER -> <<"\\u" \o ToString(num)>>

\* last index of the run of characters of s from position i on that satisfy
\* "is a digit" (i - 1 when there is none)
RECURSIVE DigitsEnd(_, _)
DigitsEnd(s, i) ==
    IF i <= Len(s) /\ s[i] \in Digits THEN DigitsEnd(s, i + 1) ELSE i - 1

\* last index of the run of at most NameMax name characters from position i on
RECURSIVE NameEnd(_, _, _)
NameEnd(s, i, n) ==
    IF n < NameMax /\ i <= Len(s) /\ s[i] \notin NotNameChar
    THEN NameEnd(s, i + 1, n + 1) ELSE i - 1

\* The reference the regular expression matches at the '&' at p:
\* [consumed |-> last position the replacement consumes (p - 1: no reference),
\*  out |-> the characters put in its place]
CharRef(s, p) ==
    IF p + 1 <= Len(s) /\ s[p + 1] = "#"
    THEN LET e == DigitsEnd(s, p + 2)
         IN  IF e < p + 2 THEN [consumed |-> p - 1, out |-> <<>>]
             ELSE [consumed |-> IF e + 1 <= Len(s) /\ s[e + 1] = ";" THEN e + 1 ELSE e,
                   out |-> Chr(IntOf(SubSeq(s, p + 2, e), 0))]
    ELSE LET e == NameEnd(s, p + 1, 0)
             m == IF e >= p + 1 /\ e + 1 <= Len(s) /\ s[e + 1] = ";" THEN e + 1 ELSE e
             name == SubSeq(s, p + 1, m)
             \* the whole name, else its longest proper prefix of length >= 2
             hits == {x \in 2..Len(name) : SubSeq(name, 1, x) \in DOMAIN html5}
             best == CHOOSE x \in hits : \A y \in hits : y <= x
         IN  IF e < p + 1 \/ hits = {} THEN [consumed |-> p - 1, out |-> <<>>]
             ELSE [consumed |-> p + best, out |-> html5[SubSeq(name, 1, best)]]

unescape(s) ==
    LET amps == {p \in 1..Len(s) : s[p] = "&"}
        refs == [p \in amps |-> CharRef(s, p)]
        piece(i) ==
            IF i \in amps
            THEN IF refs[i].consumed >= i THEN refs[i].out ELSE <<s[i]>>
            ELSE IF \E p \in amps : p < i /\ refs[p].consumed >= i
                 THEN <<>> ELSE <<s[i]>>
    IN  IF amps = {} THEN s
        ELSE Flatten([i \in 1..Len(s) |-> piece(i)], 1, Len(s))

(***************************************************************************)
(* re.sub(r'\s+', ' ', text).strip(): every run of whitespace becomes one  *)
(* space, and the leading and trailing whitespace goes.                    *)
(***************************************************************************)
\* The characters \s matches in a str pattern: the ASCII whitespace and the
\* Unicode spaces (U+1680, U+2000..U+200A, U+2028, U+2029, U+202F, U+205F, U+3000).
IsSpace(c) ==
    c \in {" ", "\t", "\n", "\r", "\f", "NBSP",
           "\\u5760", "\\u8192", "\\u8193", "\\u8194", "\\u8195", "\\u8196",
           "\\u8197", "\\u8198", "\\u8199", "\\u8200", "\\u8201", "\\u8202",
           "\\u8232", "\\u8233", "\\u8239", "\\u8287", "\\u12288"}

CollapseSpace(s) ==
    LET inked == {i \in 1..Len(s) : ~IsSpace(s[i])}
        last  == IF inked = {} THEN 0 ELSE CHOOSE i \in inked : \A j \in inked : j <= i
    IN  Flatten([i \in 1..Len(s) |->
                    IF ~IsSpace(s[i]) THEN <<s[i]>>
                    ELSE IF i > 1 /\ ~IsSpace(s[i - 1]) /\ i < last THEN <<" ">>
                    ELSE <<>>], 1, Len(s))

(***************************************************************************)
(* NewsSymmarizer.clean_text                                               *)
(***************************************************************************)
clean_text_late_unescape(text) ==
    \* the entities decoded after the whitespace clean-up instead of before it
    unescape(CollapseSpace(StripTags(text)))

clean_text(text) == CollapseSpace(unescape(StripTags(text)))

(***************************************************************************)
(* The process environment and main's check of it.                         *)
(***************************************************************************)
required_vars ==
    <<"FEEDBIN_EMAIL", "FEEDBIN_PASSWORD", "OPENAI_API_KEY",
      "EMAIL_USER", "EMAIL_PASSWORD", "RECIPIENT_EMAIL">>

EnvNames ==
    {"FEEDBIN_EMAIL", "FEEDBIN_PASSWORD", "OPENAI_API_KEY", "SMTP_SERVER",
     "SMTP_PORT", "EMAIL_USER", "EMAIL_PASSWORD", "RECIPIENT_EMAIL"}

\* The values a variable takes in the model: unset, set to the empty string, or
\* set to a value (the port: a number's text, or a text int() rejects).
EnvValues(name) ==
    CASE name = "SMTP_SERVER" -> {Unset, "mail.example.org"}
      [] name = "SMTP_PORT" -> {Unset, "2525", "smtp"}
      [] OTHER -> {Unset, "", "secret"}

\* os.getenv(name, default)
getenv(e, name, default) == IF e[name] = Unset THEN default ELSE e[name]

\* not os.getenv(var): unset, or set to the empty string
Falsy(v) == v = Unset \/ v = ""

SeqRange(s) == {s[i] : i \in DOMAIN s}

missing_vars_unset_only(e) ==
    \* a variable set to the empty string taken as present
    SelectSeq(required_vars, LAMBDA var : e[var] = Unset)

missing_vars(e) == SelectSeq(required_vars, LAMBDA var : Falsy(e[var]))

\* int(text) for the port's texts: <<number>>, or <<>> for ValueError
IntOfPort(text) ==
    CASE text = "587" -> <<587>>
      [] text = "2525" -> <<2525>>
      [] OTHER -> <<>>

(***************************************************************************)
(* main, lines 413-428: the check of the environment.                      *)
(***************************************************************************)
main ==
    /\ pc = "main"
    /\ LET missing == missing_vars(env)
       IN  IF missing # <<>>
           THEN /\ stdout' = stdout \o <<"Missing required environment variables:">>
                                    \o [i \in 1..Len(missing) |-> "  - " \o missing[i]]
                /\ pc' = "aborted"
           ELSE /\ pc' = "construct"
                /\ UNCHANGED stdout
    /\ UNCHANGED <<env, self, net, entries, articles, gen, summary, mail, smtp, exc>>
    /\ UNCHANGED cleanVars

(***************************************************************************)
(* NewsSymmarizer.__init__, lines 18-38 (main, line 430).                  *)
(***************************************************************************)
init ==
    /\ pc = "construct"
    /\ LET port == IntOfPort(getenv(env, "SMTP_PORT", "587"))
       IN  IF port = <<>>
           THEN /\ exc' = "ValueError"
                /\ pc' = "raised"
                /\ UNCHANGED self
           ELSE /\ self' = <<[feedbin_email |-> getenv(env, "FEEDBIN_EMAIL", "YOUR_FEEDBIN_EMAIL_HERE"),
                            feedbin_password |-> getenv(env, "FEEDBIN_PASSWORD", "YOUR_FEEDBIN_PASSWORD_HERE"),
                            openai_api_key |-> getenv(env, "OPENAI_API_KEY", "YOUR_OPENAI_API_KEY_HERE"),
                            smtp_server |-> getenv(env, "SMTP_SERVER", "smtp.gmail.com"),
                            smtp_port |-> port[1],
                            email_user |-> getenv(env, "EMAIL_USER", "YOUR_EMAIL_HERE"),
                            email_password |-> getenv(env, "EMAIL_PASSWORD", "YOUR_EMAIL_APP_PASSWORD_HERE"),
                            recipient_email |-> getenv(env, "RECIPIENT_EMAIL", "WHERE_TO_SEND_SUMMARY@example.com"),
                            tokens_used_today |-> 0]>>
                /\ pc' = "auth_probe"
                /\ UNCHANGED exc
    /\ UNCHANGED <<env, net, stdout, entries, articles, gen, summary, mail, smtp>>
    /\ UNCHANGED cleanVars

(***************************************************************************)
(* The feed provider.  A response is a status and, on 200, a JSON array of *)
(* entries; an entry is a dictionary that may lack keys.  The entries of a *)
(* response are the first n of one of the Variants: the first two entries  *)
(* carry the texts the cleaning and the truncation are about, the rest are *)
(* plain.  The variants with texts of 500 characters and more come in      *)
(* responses of at most MaxLongEntries entries.                            *)
(***************************************************************************)
MaxEntries == 21    \* most entries in one response of the feed provider

MaxLongEntries == 2 \* most entries in a response of the variants "long", "edge"

Variants == {"markup", "long", "edge"}

FeedStatuses == {200, 401, 503}

None == "None"

Chars(str) ==
    \* the characters of the few literal texts the entries use
    CASE str = "" -> <<>>
      [] str = "ok" -> <<"o", "k">>
      [] str = "zzz" -> <<"z", "z", "z">>
      [] str = "<p>" -> <<"<", "p", ">">>
      [] str = "</p>" -> <<"<", "/", "p", ">">>
      [] str = "&amp;" -> <<"&", "a", "m", "p", ";">>
      [] str = "&nbsp;" -> <<"&", "n", "b", "s", "p", ";">>
      [] str = "&lt;" -> <<"&", "l", "t", ";">>
      [] str = "<b>" -> <<"<", "b", ">">>
      [] str = "</b>" -> <<"<", "/", "b", ">">>

Entry(v, i) ==
    LET base == [url |-> "http://example.org/" \o ToString(i),
                 published |-> "2024-01-01T00:00:00.000000Z"]
        full(sum, con, fid) ==
            base @@ [title |-> "T" \o ToString(i), summary |-> sum,
                     content |-> con, feed_id |-> fid]
    IN  CASE i >= 3 -> full(Chars("ok"), Chars(""), "f1")
          [] v = "markup" /\ i = 1 ->
                \* "<p>a &amp; b</p> \n c&nbsp;"
                full(Chars("<p>") \o <<"a", " ">> \o Chars("&amp;") \o <<" ", "b">>
                       \o Chars("</p>") \o <<" ", "\n", " ", "c">> \o Chars("&nbsp;"),
                     Chars("zzz"), "f1")
          [] v = "markup" /\ i = 2 -> base       \* no title, texts or feed
          [] v = "long" /\ i = 1 ->
                full(Chars("<b>") \o Rep("a", 501) \o Chars("</b>"), Chars(""), "f2")
          [] v = "long" /\ i = 2 ->
                \* an empty summary: the content is used
                full(Chars(""), <<" ">> \o Rep("a", 300) \o <<" ", "\t">> \o Rep("b", 300),
                     "f3")
          [] v = "edge" /\ i = 1 -> full(Rep("a", 500), Chars("zzz"), "f1")
          [] v = "edge" /\ i = 2 ->
                full(Chars("&lt;") \o Rep("a", 500), Chars(""), None)

Entries(v, n) == [i \in 1..n |-> Entry(v, i)]

\* The bodies a 200 answer to an entries request may carry: <<variant, length>>.
Responses ==
    {<<"empty", 0>>} \cup ({"markup"} \X (1..MaxEntries))
                    \cup ({"long", "edge"} \X (1..MaxLongEntries))

\* dict.get(key, default)
Get(d, key, default) == IF key \in DOMAIN d THEN d[key] ELSE default

\* The subscription list the provider answers a feed-name lookup with.
Subscriptions ==
    <<[feed_id |-> "f1", title |-> "Feed One"], [feed_id |-> "f2"]>>

\* The statuses of the feed-name lookups of one run: the lookup for article i.
LookupPatterns == {"up", "flaky"}

LookupStatus(pattern, i) == IF pattern = "flaky" /\ i % 2 = 1 THEN 503 ELSE 200

\* A request to the feed provider or the generation API, with its answer's status.
\* answer names the entries of a 200 answer to an entries request (see Responses).
Req(to, path, since, per_page, body, status, answer) ==
    [to |-> to, path |-> path, since |-> since, per_page |-> per_page,
     body |-> body, status |-> status, answer |-> answer]

NoAnswer == <<"none", 0>>

NoBody == <<>>

\* get_feed_name's result, given the answer to its request
get_feed_name(feed_id, status, feeds) ==
    IF feed_id = None THEN "Unknown Feed"
    ELSE LET hits == {k \in 1..Len(feeds) : Get(feeds[k], "feed_id", None) = feed_id}
         IN  IF status = 200 /\ hits # {}
             THEN Get(feeds[CHOOSE k \in hits : \A j \in hits : k <= j], "title",
                      "Unknown Feed")
             ELSE "Unknown Feed"

(***************************************************************************)
(* fetch_recent_articles, lines 40-136, step by step.                      *)
(***************************************************************************)
\* lines 51-68: the subscription-list probe
auth_probe ==
    /\ pc = "auth_probe"
    /\ \E st \in FeedStatuses :
        /\ net' = Append(net, Req("feedbin", "subscriptions.json", None, 0, NoBody, st, NoAnswer))
        /\ IF st # 200
           THEN /\ articles' = <<>>
                /\ pc' = "fetched"
           ELSE /\ pc' = "entries_probe"
                /\ UNCHANGED articles
    /\ UNCHANGED <<env, self, stdout, entries, gen, summary, mail, smtp, exc>>
    /\ UNCHANGED cleanVars

\* lines 70-91: the unfiltered probe for any recent entries
entries_probe_unchecked ==
    \* the probe's status not looked at
    /\ pc = "entries_probe"
    /\ \E st \in FeedStatuses :
        net' = Append(net, Req("feedbin", "entries.json", None, 10, NoBody, st, NoAnswer))
    /\ pc' = "filtered"
    /\ UNCHANGED <<env, self, stdout, entries, articles, gen, summary, mail, smtp, exc>>
    /\ UNCHANGED cleanVars

entries_probe ==
    /\ pc = "entries_probe"
    /\ \E st \in FeedStatuses :
        /\ net' = Append(net, Req("feedbin", "entries.json", None, 10, NoBody, st, NoAnswer))
        /\ IF st = 200
           THEN /\ pc' = "filtered"
                /\ UNCHANGED articles
           ELSE /\ articles' = <<>>
                /\ pc' = "fetched"
    /\ UNCHANGED <<env, self, stdout, entries, gen, summary, mail, smtp, exc>>
    /\ UNCHANGED cleanVars

\* lines 93-109: the request with the date filter
filtered_request ==
    /\ pc = "filtered"
    /\ \E st \in FeedStatuses, r \in Responses :
        LET answer == IF st = 200 THEN r ELSE NoAnswer
        IN  /\ net' = Append(net, Req("feedbin", "entries.json", "SINCE", 50, NoBody,
                                      st, answer))
            /\ IF st # 200
               THEN /\ articles' = <<>>
                    /\ pc' = "fetched"
                    /\ UNCHANGED entries
               ELSE /\ entries' = Entries(r[1], r[2])
                    /\ pc' = IF entries' = <<>> THEN "fallback" ELSE "format"
                    /\ UNCHANGED articles
    /\ UNCHANGED <<env, self, stdout, gen, summary, mail, smtp, exc>>
    /\ UNCHANGED cleanVars

\* lines 111-121: no entry passed the date filter, so one request without it
fallback_request_skipped ==
    \* the fetcher giving up without the request
    /\ pc = "fallback"
    /\ pc' = "format"
    /\ UNCHANGED <<env, self, net, stdout, entries, articles, gen, summary, mail, smtp, exc>>
    /\ UNCHANGED cleanVars

fallback_request ==
    /\ pc = "fallback"
    /\ \E st \in FeedStatuses, r \in Responses :
        LET answer == IF st = 200 THEN r ELSE NoAnswer
        IN  /\ net' = Append(net, Req("feedbin", "entries.json", None, 20, NoBody,
                                      st, answer))
            /\ IF st = 200
               THEN entries' = Entries(r[1], r[2])
               ELSE UNCHANGED entries
            /\ pc' = "format"
    /\ UNCHANGED <<env, self, stdout, articles, gen, summary, mail, smtp, exc>>
    /\ UNCHANGED cleanVars

\* lines 123-136 with get_feed_name, lines 138-155: one article per entry, each
\* with a feed identifier looked up by a request of its own
formatted_articles(es, pattern) ==
    [i \in 1..Len(es) |->
        [title |-> Get(es[i], "title", "No Title"),
         url |-> Get(es[i], "url", ""),
         summary |-> Get(es[i], "summary", <<>>),
         content |-> Get(es[i], "content", <<>>),
         published |-> Get(es[i], "published", ""),
         feed_name |-> get_feed_name(Get(es[i], "feed_id", None),
                                     LookupStatus(pattern, i), Subscriptions)]]

format_articles ==
    /\ pc = "format"
    /\ \E pattern \in LookupPatterns :
        /\ articles' = formatted_articles(entries, pattern)
        /\ net' = net \o Flatten(
                    [i \in 1..Len(entries) |->
                        IF Get(entries[i], "feed_id", None) = None THEN <<>>
                        ELSE <<Req("feedbin", "subscriptions.json", None, 0, NoBody,
                                   LookupStatus(pattern, i), NoAnswer)>>],
                    1, Len(entries))
    /\ entries' = <<>>
    /\ pc' = "fetched"
    /\ UNCHANGED <<env, self, stdout, gen, summary, mail, smtp, exc>>
    /\ UNCHANGED cleanVars

(***************************************************************************)
(* summarize_with_chatgpt, lines 268-350.                                  *)
(***************************************************************************)
MaxPromptArticles == 20     \* articles[:20], line 276

MaxSummaryLen == 500        \* len(clean_summary) > 500, lines 279-280

GenStatuses == {200, 429, 500}

\* choices[0].message.content and usage.total_tokens of a 200 answer
GenAnswers == {[content |-> "DIGEST", total_tokens |-> 1200]}

Ellipsis == <<".", ".", ".">>

\* article['summary'] or article['content']
summary_or_content(article) ==
    IF article.summary # <<>> THEN article.summary ELSE article.content

truncate_keep_all(clean_summary) ==
    \* the truncation left out
    clean_summary

truncate(clean_summary) ==
    IF Len(clean_summary) > MaxSummaryLen
    THEN SubSeq(clean_summary, 1, MaxSummaryLen) \o Ellipsis
    ELSE clean_summary

prompt_articles_all(as) ==
    \* the limit on the number of articles left out
    as

prompt_articles(as) == SubSeq(as, 1, Min2(Len(as), MaxPromptArticles))

\* lines 274-289: one numbered block per article, in order
articles_text(as) ==
    LET taken == prompt_articles(as)
    IN  [i \in 1..Len(taken) |->
            [i |-> i,
             title |-> taken[i].title,
             source |-> taken[i].feed_name,
             summary |-> truncate(clean_text(summary_or_content(taken[i]))),
             url |-> taken[i].url]]

fallback_summary(n) ==
    "Error generating summary. Found " \o ToString(n) \o " articles."

\* lines 329-331: a status other than 200 is answered by the fallback text
generation_failed_raises(st) ==
    \* the status raised as an exception, as response.raise_for_status() does
    /\ gen' = <<[status |-> st, content |-> "", total_tokens |-> 0]>>
    /\ exc' = "HTTPError"
    /\ pc' = "raised"
    /\ UNCHANGED <<self, summary>>

generation_failed(st) ==
    /\ gen' = <<[status |-> st, content |-> "", total_tokens |-> 0]>>
    /\ summary' = <<fallback_summary(Len(articles))>>
    /\ pc' = "send_email"
    /\ UNCHANGED <<self, exc>>

summarize_with_chatgpt ==
    /\ pc = "summarize"
    /\ IF articles = <<>>
       THEN /\ summary' = <<"No new articles found in the specified time period.">>
            /\ pc' = "send_email"
            /\ UNCHANGED <<net, gen, self, exc>>
       ELSE \E st \in GenStatuses, ans \in GenAnswers :
            /\ net' = Append(net,
                        Req("openai", "chat/completions", None, 0,
                            [model |-> "gpt-4", max_tokens |-> 1500,
                             temperature |-> "0.7",
                             articles_text |-> articles_text(articles)],
                            st, NoAnswer))
            /\ IF st # 200
               THEN generation_failed(st)
               ELSE /\ gen' = <<[status |-> st, content |-> ans.content,
                                 total_tokens |-> ans.total_tokens]>>
                    /\ self' = <<[self[1] EXCEPT !.tokens_used_today =
                                                    @ + ans.total_tokens]>>
                    /\ summary' = <<ans.content>>
                    /\ pc' = "send_email"
                    /\ UNCHANGED exc
    /\ UNCHANGED <<env, stdout, entries, articles, mail, smtp>>
    /\ UNCHANGED cleanVars

(***************************************************************************)
(* run_daily_summary, lines 392-398: the branch on the fetcher's result.   *)
(* The call of line 397 passes three arguments to send_email, which takes  *)
(* two (line 352): Python raises TypeError before send_email's body runs.  *)
(***************************************************************************)
send_email_params == 2      \* def send_email(self, summary, article_count), line 352

\* The call send_email(*args): the message it composes, or <<>> on TypeError.
subject(article_count) ==
    "Daily News Summary - " \o "DATE" \o " (" \o ToString(article_count)
        \o " articles)"

body(summary_text, article_count) ==
    "Good morning! Here's your daily news summary based on "
        \o ToString(article_count) \o " articles from your Feedbin subscriptions: "
        \o summary_text
        \o " --- This summary was automatically generated from your Feedbin feeds."

compose(args) ==
    [From |-> self[1].email_user, To |-> self[1].recipient_email,
     Subject |-> subject(args[2]), Body |-> body(args[1], args[2])]

\* Entering send_email with the given positional arguments.
call_send_email(args) ==
    IF Len(args) # send_email_params
    THEN /\ exc' = "TypeError"
         /\ pc' = "raised"
         /\ UNCHANGED mail
    ELSE /\ mail' = Append(mail, compose(args))
         /\ pc' = "smtp_connect"
         /\ UNCHANGED exc

no_articles_args == <<"No new articles found in your feeds today.", 0, <<>>>>

branch ==
    /\ pc = "fetched"
    /\ IF articles = <<>>
       THEN /\ stdout' = Append(stdout, "No articles found. Sending notification email.")
            /\ call_send_email(no_articles_args)
       ELSE /\ pc' = "summarize"
            /\ UNCHANGED <<stdout, mail, exc>>
    /\ UNCHANGED <<env, self, net, entries, articles, gen, summary, smtp>>
    /\ UNCHANGED cleanVars

\* lines 404-406
send_summary ==
    /\ pc = "send_email"
    /\ call_send_email(<<summary[1], Len(articles)>>)
    /\ UNCHANGED <<env, self, net, stdout, entries, articles, gen, summary, smtp>>
    /\ UNCHANGED cleanVars

(***************************************************************************)
(* send_email, lines 376-385: the mail session, step by step.  A step ends *)
(* "ok", "refused" (the server answers with an error: the library raises   *)
(* and leaves the connection as it is) or "disconnected" (the connection   *)
(* broke: the library closes its socket and raises).  Every exception is   *)
(* caught at line 384; the function then returns.                          *)
(***************************************************************************)
Outcomes == {"ok", "refused", "disconnected"}

\* the return from send_email to run_daily_summary (line 398 or line 408)
returned == IF articles = <<>> THEN "return" ELSE "usage"

\* lines 384-385: the exception a step raised is caught and printed
caught_only_smtp_errors(step) ==
    \* "except smtplib.SMTPException": a broken connection's OSError passes through
    IF step = "connect"
    THEN /\ exc' = "OSError"
         /\ pc' = "raised"
         /\ UNCHANGED stdout
    ELSE /\ stdout' = Append(stdout, "Error sending email: " \o step)
         /\ pc' = returned
         /\ UNCHANGED exc

caught(step) ==
    /\ stdout' = Append(stdout, "Error sending email: " \o step)
    /\ pc' = returned
    /\ UNCHANGED exc

\* The session after a step that failed with the given outcome.
after_failure(outcome) ==
    IF outcome = "disconnected" THEN [smtp EXCEPT !.session = "closed"] ELSE smtp

\* line 378: smtplib.SMTP(host, port) connects; a failure leaves no session
smtp_connect ==
    /\ pc = "smtp_connect"
    /\ net' = Append(net, Req("smtp", "connect", None, 0,
                              <<self[1].smtp_server, self[1].smtp_port>>, 0, NoAnswer))
    /\ \E outcome \in Outcomes :
        IF outcome = "ok"
        THEN /\ smtp' = [smtp EXCEPT !.session = "open"]
             /\ pc' = "smtp_starttls"
             /\ UNCHANGED <<stdout, exc>>
        ELSE /\ caught("connect")
             /\ UNCHANGED smtp
    /\ UNCHANGED <<env, self, entries, articles, gen, summary, mail>>
    /\ UNCHANGED cleanVars

\* line 379
smtp_starttls ==
    /\ pc = "smtp_starttls"
    /\ \E outcome \in Outcomes :
        IF outcome = "ok"
        THEN /\ smtp' = [smtp EXCEPT !.tls = TRUE]
             /\ pc' = "smtp_login"
             /\ UNCHANGED <<stdout, exc>>
        ELSE /\ caught("starttls")
             /\ smtp' = after_failure(outcome)
    /\ UNCHANGED <<env, self, net, entries, articles, gen, summary, mail>>
    /\ UNCHANGED cleanVars

\* line 380
smtp_login ==
    /\ pc = "smtp_login"
    /\ \E outcome \in Outcomes :
        IF outcome = "ok"
        THEN /\ smtp' = [smtp EXCEPT !.user = self[1].email_user]
             /\ pc' = "smtp_send"
             /\ UNCHANGED <<stdout, exc>>
        ELSE /\ caught("login")
             /\ smtp' = after_failure(outcome)
    /\ UNCHANGED <<env, self, net, entries, articles, gen, summary, mail>>
    /\ UNCHANGED cleanVars

\* line 381
smtp_send ==
    /\ pc = "smtp_send"
    /\ \E outcome \in Outcomes :
        IF outcome = "ok"
        THEN /\ smtp' = [smtp EXCEPT !.sent = Append(@, mail[Len(mail)])]
             /\ pc' = "smtp_quit"
             /\ UNCHANGED <<stdout, exc>>
        ELSE /\ caught("send_message")
             /\ smtp' = after_failure(outcome)
    /\ UNCHANGED <<env, self, net, entries, articles, gen, summary, mail>>
    /\ UNCHANGED cleanVars

\* lines 382-383: quit() closes the session whether or not the server answers
smtp_quit ==
    /\ pc = "smtp_quit"
    /\ smtp' = [smtp EXCEPT !.session = "closed"]
    /\ \E outcome \in {"ok", "disconnected"} :
        IF outcome = "ok"
        THEN /\ stdout' = Append(stdout, "Summary email sent successfully!")
             /\ pc' = returned
             /\ UNCHANGED exc
        ELSE caught("quit")
    /\ UNCHANGED <<env, self, net, entries, articles, gen, summary, mail>>
    /\ UNCHANGED cleanVars

(***************************************************************************)
(* run_daily_summary, lines 408-411: display_usage_summary (lines 230-266, *)
(* with get_api_usage_info, lines 171-209, whose exceptions are caught:    *)
(* status 0 stands for a request that raised), then the closing line.      *)
(***************************************************************************)
UsageStatuses == {200, 403, 0}

display_usage_summary ==
    /\ pc = "usage"
    /\ \E st \in UsageStatuses :
        /\ net' = Append(net, Req("openai", "usage", None, 0, NoBody, st, NoAnswer))
    /\ stdout' = Append(stdout, "Daily summary complete!")
    /\ pc' = "done"
    /\ UNCHANGED <<env, self, entries, articles, gen, summary, mail, smtp, exc>>
    /\ UNCHANGED cleanVars

(***************************************************************************)
(* The run: main as the process's entry point.                             *)
(***************************************************************************)
Environments ==
    [FEEDBIN_EMAIL : EnvValues("FEEDBIN_EMAIL"),
     FEEDBIN_PASSWORD : EnvValues("FEEDBIN_PASSWORD"),
     OPENAI_API_KEY : EnvValues("OPENAI_API_KEY"),
     SMTP_SERVER : EnvValues("SMTP_SERVER"),
     SMTP_PORT : EnvValues("SMTP_PORT"),
     EMAIL_USER : EnvValues("EMAIL_USER"),
     EMAIL_PASSWORD : EnvValues("EMAIL_PASSWORD"),
     RECIPIENT_EMAIL : EnvValues("RECIPIENT_EMAIL")]

NoSession == [session |-> "none", tls |-> FALSE, user |-> "", sent |-> <<>>]

InitRun(e, at) ==
    /\ env = e
    /\ pc = at
    /\ self = <<>>
    /\ net = <<>>
    /\ stdout = <<>>
    /\ entries = <<>>
    /\ articles = <<>>
    /\ gen = <<>>
    /\ summary = <<>>
    /\ mail = <<>>
    /\ smtp = NoSession
    /\ exc = "none"

InitCleanIdle ==
    /\ raw = <<>>
    /\ pass1 = <<>>
    /\ pass2 = <<>>
    /\ cpc = "idle"

Init == (\E e \in Environments : InitRun(e, "main")) /\ InitCleanIdle

Next ==
    \/ main
    \/ init
    \/ auth_probe
    \/ entries_probe
    \/ filtered_request
    \/ fallback_request
    \/ format_articles
    \/ branch
    \/ summarize_with_chatgpt
    \/ send_summary
    \/ smtp_connect
    \/ smtp_starttls
    \/ smtp_login
    \/ smtp_send
    \/ smtp_quit
    \/ display_usage_summary

Spec == Init /\ [][Next]_vars

\* The clean_text harness runs beside a process that never starts.
InitRunIdle == InitRun([n \in EnvNames |-> Unset], "off")

(***************************************************************************)
(* The clean_text harness: every text over CleanAlphabet of at most        *)
(* MaxTextLen characters is cleaned once, and the result cleaned again.    *)
(***************************************************************************)
CleanAlphabet == {"&", "#", "9", "l", "t", "<", ">", " "}

Texts(n) == UNION {[1..k -> CleanAlphabet] : k \in 0..n}

InitClean ==
    /\ InitRunIdle
    /\ raw \in Texts(MaxTextLen)
    /\ pass1 = <<>>
    /\ pass2 = <<>>
    /\ cpc = "input"

CleanOnce ==
    /\ cpc = "input"
    /\ pass1' = <<clean_text(raw)>>
    /\ cpc' = "once"
    /\ UNCHANGED <<raw, pass2>>
    /\ UNCHANGED runVars

CleanAgain ==
    /\ cpc = "once"
    /\ pass2' = <<clean_text(pass1[1])>>
    /\ cpc' = "twice"
    /\ UNCHANGED <<raw, pass1>>
    /\ UNCHANGED runVars

NextClean == CleanOnce \/ CleanAgain

SpecClean == InitClean /\ [][NextClean]_vars

(***************************************************************************)
(* What the properties below read off a state.                             *)
(***************************************************************************)
FetchPositions == {"auth_probe", "entries_probe", "filtered", "fallback", "format"}

\* fetch_recent_articles has been called and has returned
FetchReturned == net # <<>> /\ pc \notin FetchPositions

\* the process has ended: main returned, or an exception left it
Terminated == pc \in {"aborted", "raised", "return", "done"}

\* send_email has been entered and has returned
SendEmailReturned == mail # <<>> /\ pc \in {"return", "usage", "done"}

Indexes(path, to) == {k \in 1..Len(net) : net[k].to = to /\ net[k].path = path}

ChatRequests == Indexes("chat/completions", "openai")

EntriesRequests == Indexes("entries.json", "feedbin")

FilteredRequests == {k \in EntriesRequests : net[k].since # None}

MailErrors ==
    {"Error sending email: connect", "Error sending email: starttls",
     "Error sending email: login", "Error sending email: send_message",
     "Error sending email: quit"}

MailFailed == SeqRange(stdout) \cap MailErrors # {}

(***************************************************************************)
(* C1.  When the fetcher yields no article, the run ends without an        *)
(* exception, no request to the generation API is made, and exactly one    *)
(* message is composed, with "(0 articles)" in its subject and the         *)
(* no-new-articles text in its body.  Line 397 calls send_email with three *)
(* arguments, so the run ends in TypeError instead.                        *)
(***************************************************************************)
C1_NoArticlesStillNotifies ==
    (Terminated /\ FetchReturned /\ articles = <<>>) =>
        /\ exc = "none"
        /\ ChatRequests = {}
        /\ Len(mail) = 1
        /\ mail[1].Subject = "Daily News Summary - DATE (0 articles)"
        /\ mail[1].Body = body("No new articles found in your feeds today.", 0)

(***************************************************************************)
(* C2.  When the fetcher returned at least one article and the generation  *)
(* API answered with a status other than 200, the summarizer returns the   *)
(* fallback text naming the number of articles (no exception), and the run *)
(* hands exactly one message to mail submission: it carries the fallback   *)
(* text and the count, nothing of the API's answer, and the mail session   *)
(* accepts that message and no other.                                      *)
(***************************************************************************)
ExpectedFallback(n) ==
    "Error generating summary. Found " \o ToString(n) \o " articles."

C2_GenerationFailureFallsBack ==
    (gen # <<>> /\ gen[1].status # 200) =>
        /\ articles # <<>>
        /\ exc = "none"
        /\ pc # "raised"
        /\ Cardinality(ChatRequests) = 1
        /\ summary = <<ExpectedFallback(Len(articles))>>
        /\ pc = "send_email" => mail = <<>>
        /\ pc # "send_email" =>
            /\ Len(mail) = 1
            /\ mail[1].Subject = subject(Len(articles))
            /\ mail[1].Body = body(ExpectedFallback(Len(articles)), Len(articles))
            /\ mail[1].Body # body("DIGEST", Len(articles))
            /\ smtp.sent \in {<<>>, <<mail[1]>>}
            /\ (pc \in {"usage", "done"} /\ ~MailFailed) => smtp.sent = <<mail[1]>>

C2_Witness ==
    /\ pc = "done"
    /\ gen # <<>> /\ gen[1].status = 500
    /\ Len(articles) = 3
    /\ smtp.sent = mail
    /\ Len(mail) = 1

(***************************************************************************)
(* C3.  A failure of connect, STARTTLS, login, send or quit never leaves   *)
(* send_email as an exception: once send_email has composed its message no *)
(* exception ends the run; the failure is caught and printed, send_email   *)
(* returns, and run_daily_summary goes on to its closing line.             *)
(***************************************************************************)
C3_DeliveryErrorSuppressed ==
    /\ mail # <<>> => (exc = "none" /\ pc # "raised")
    /\ MailFailed =>
        /\ exc = "none"
        /\ pc \in {"usage", "done"}
        /\ pc = "usage" => ENABLED display_usage_summary
        /\ pc = "done" => stdout[Len(stdout)] = "Daily summary complete!"

C3_Witness ==
    /\ pc = "done"
    /\ "Error sending email: login" \in SeqRange(stdout)
    /\ stdout[Len(stdout)] = "Daily summary complete!"

(***************************************************************************)
(* C4 as stated.  If any of the eight settings is unset, main aborts       *)
(* before any network request and lists exactly the unset settings; a      *)
(* request is issued only when all eight are set.                          *)
(***************************************************************************)
Listed == {name \in EnvNames : ("  - " \o name) \in SeqRange(stdout)}

C4_AllEightRequired ==
    LET unset == {name \in EnvNames : env[name] = Unset}
    IN  /\ net # <<>> => unset = {}
        /\ (pc # "main" /\ unset # {}) => (pc = "aborted" /\ Listed = unset)

(***************************************************************************)
(* C4 as amended.  main requires the six settings of required_vars; the    *)
(* mail host and port are optional (defaults smtp.gmail.com and 587).  If  *)
(* any of the six is unset or empty, main aborts before any network        *)
(* request, having printed exactly those, in required_vars' order; a       *)
(* request is issued only when all six are set and not empty.              *)
(***************************************************************************)
C4_SixRequired ==
    LET missing == {name \in SeqRange(required_vars) : env[name] \in {Unset, ""}}
    IN  /\ net # <<>> => missing = {}
        /\ (pc # "main" /\ missing # {}) =>
            /\ pc = "aborted"
            /\ net = <<>>
            /\ Listed = missing
            /\ Len(stdout) = 1 + Cardinality(missing)
            /\ \A i, j \in 2..Len(stdout) :
                 i < j => \E a, b \in 1..Len(required_vars) :
                            /\ a < b
                            /\ stdout[i] = "  - " \o required_vars[a]
                            /\ stdout[j] = "  - " \o required_vars[b]
        /\ pc = "aborted" => missing # {}

C4_Witness ==
    /\ pc = "aborted"
    /\ env["FEEDBIN_EMAIL"] = Unset
    /\ env["EMAIL_USER"] = ""
    /\ env["SMTP_SERVER"] = Unset
    /\ Listed = {"FEEDBIN_EMAIL", "EMAIL_USER"}

(***************************************************************************)
(* C5.  When the request with the date filter succeeds with no entry,      *)
(* exactly one more entries request follows, without the filter; if it     *)
(* succeeds with entries, the fetcher returns one article per entry of     *)
(* that answer, in its order.                                              *)
(***************************************************************************)
EntryMatches(article, entry) ==
    /\ article.title = Get(entry, "title", "No Title")
    /\ article.url = Get(entry, "url", "")
    /\ article.summary = Get(entry, "summary", <<>>)
    /\ article.content = Get(entry, "content", <<>>)
    /\ article.published = Get(entry, "published", "")

C5_FallbackWhenFilterStarves ==
    \A k \in FilteredRequests :
        (net[k].status = 200 /\ net[k].answer[2] = 0 /\ pc # "fallback") =>
            LET later == {j \in EntriesRequests : j > k}
            IN  /\ Cardinality(later) = 1
                /\ \A j \in later :
                    /\ j = k + 1
                    /\ net[j].since = None
                    /\ (net[j].status = 200 /\ net[j].answer[2] > 0 /\ FetchReturned) =>
                        LET answer == Entries(net[j].answer[1], net[j].answer[2])
                        IN  /\ Len(articles) = Len(answer)
                            /\ \A i \in 1..Len(answer) :
                                 EntryMatches(articles[i], answer[i])

C5_Witness ==
    /\ FetchReturned
    /\ Len(articles) = 2
    /\ \E k \in FilteredRequests :
        /\ net[k].status = 200 /\ net[k].answer[2] = 0
        /\ net[k + 1].status = 200 /\ net[k + 1].answer = <<"long", 2>>

(***************************************************************************)
(* C6.  The prompt of the generation request holds min(n, 20) blocks for   *)
(* the n articles given, numbered 1, 2, ... and built from the first       *)
(* min(n, 20) articles in order; the rest are dropped, and there is no     *)
(* second generation request.                                              *)
(***************************************************************************)
C6_PromptHoldsFirstTwenty ==
    /\ Cardinality(ChatRequests) <= 1
    /\ (articles # <<>> /\ pc \in {"send_email", "smtp_connect", "usage", "done"})
          => Cardinality(ChatRequests) = 1
    /\ \A k \in ChatRequests :
        LET blocks == net[k].body.articles_text
            n == Len(articles)
        IN  /\ Len(blocks) = IF n <= 20 THEN n ELSE 20
            /\ \A i \in 1..Len(blocks) :
                /\ blocks[i].i = i
                /\ blocks[i].title = articles[i].title
                /\ blocks[i].source = articles[i].feed_name
                /\ blocks[i].url = articles[i].url

C6_Witness ==
    /\ Len(articles) = 21
    /\ \E k \in ChatRequests :
        /\ Len(net[k].body.articles_text) = 20
        /\ net[k].body.articles_text[20].title = "T20"
    /\ pc = "done"

(***************************************************************************)
(* C7.  Each block of the prompt carries the cleaned text of its article's *)
(* summary (of its content when the summary is empty): unchanged when it   *)
(* has at most 500 characters, else its first 500 characters followed by   *)
(* "...".  Read in the state the generation request is issued in.          *)
(***************************************************************************)
C7_SummaryTruncatedAt500 ==
    pc = "send_email" =>
        \A k \in ChatRequests :
            LET blocks == net[k].body.articles_text
            IN  \A i \in 1..Len(blocks) :
                LET text == IF articles[i].summary # <<>> THEN articles[i].summary
                            ELSE articles[i].content
                    cleaned == clean_text(text)
                    shown == blocks[i].summary
                IN  /\ Len(cleaned) <= 500 => shown = cleaned
                    /\ Len(cleaned) > 500 =>
                        /\ Len(shown) = 503
                        /\ SubSeq(shown, 1, 500) = SubSeq(cleaned, 1, 500)
                        /\ SubSeq(shown, 501, 503) = <<".", ".", ".">>

C7_Witness ==
    /\ pc = "send_email"
    /\ \E k \in ChatRequests :
        LET blocks == net[k].body.articles_text
        IN  /\ Len(blocks) = 2
            /\ Len(blocks[1].summary) = 500
            /\ Len(blocks[2].summary) = 503
            /\ blocks[2].summary[1] = "<"
            /\ articles[2].summary[1] = "&"

(***************************************************************************)
(* C8.  After send_email returns, the mail session is not open: it was     *)
(* closed after the send, and also when STARTTLS, login or the send        *)
(* failed.  The code calls quit() on the success path only.                *)
(***************************************************************************)
C8_SessionClosedOnEveryPath ==
    SendEmailReturned => smtp.session # "open"

(***************************************************************************)
(* C10.  The request with the date filter is issued only after the         *)
(* subscription-list probe and the unfiltered probe both answered 200; if  *)
(* either answers otherwise the fetcher returns no article and the         *)
(* filtered request is never issued; so a non-empty result has all three   *)
(* requests answered 200.                                                  *)
(***************************************************************************)
IsAuthProbe(r) == r.to = "feedbin" /\ r.path = "subscriptions.json"

IsEntriesProbe(r) ==
    r.to = "feedbin" /\ r.path = "entries.json" /\ r.since = None /\ r.per_page = 10

C10_FilteredOnlyAfterBothProbes ==
    /\ \A k \in FilteredRequests :
        /\ k = 3
        /\ IsAuthProbe(net[1]) /\ net[1].status = 200
        /\ IsEntriesProbe(net[2]) /\ net[2].status = 200
    /\ (FetchReturned /\ (net[1].status # 200 \/ net[2].status # 200)) =>
        /\ articles = <<>>
        /\ FilteredRequests = {}
    /\ (FetchReturned /\ articles # <<>>) =>
        /\ 3 \in FilteredRequests
        /\ \A k \in 1..3 : net[k].status = 200

C10_Witness ==
    /\ FetchReturned
    /\ Len(articles) = 1
    /\ FilteredRequests = {3}
    /\ net[3].answer = <<"markup", 1>>

C10_WitnessProbeFails ==
    /\ FetchReturned
    /\ Len(net) = 2
    /\ net[2].status = 503

(***************************************************************************)
(* C9 as stated.  clean_text(clean_text(t)) = clean_text(t) for every t.   *)
(***************************************************************************)
C9_Idempotent == cpc = "twice" => pass2 = pass1

(***************************************************************************)
(* C9 as amended.  clean_text(clean_text(t)) = clean_text(t) for every t   *)
(* whose text without its tags holds no character reference but ones that  *)
(* decode to whitespace (so for every t without '&').                      *)
(***************************************************************************)
OnlySpaceRefs(s) ==
    \A p \in {q \in 1..Len(s) : s[q] = "&"} :
        LET ref == CharRef(s, p)
        IN  ref.consumed >= p =>
                (ref.out # <<>> /\ \A i \in 1..Len(ref.out) : IsSpace(ref.out[i]))

C9_IdempotentWithoutMarkupRefs ==
    (cpc = "twice" /\ OnlySpaceRefs(StripTags(raw))) => pass2 = pass1

C9_Witness ==
    /\ cpc = "twice"
    /\ raw = <<"l", "&", "#", "9", "l">>
    /\ OnlySpaceRefs(StripTags(raw))
    /\ pass1 = <<<<"l", " ", "l">>>>
    /\ pass2 = pass1

====
